---- MODULE Spec2Model ----
(***************************************************************************)
(* Model of Nodify.py (class LineTools): add_nodes samples points along    *)
(* line features, thin_nodes removes points that share a group value with  *)
(* a kept point inside a radius, records_within is the coarse spatial      *)
(* query.                                                                  *)
(*                                                                         *)
(* Geometry is modelled on one horizontal axis: a point is <<px, 0>>, a    *)
(* null geometry is <<>>, a line runs from <<0, 0>> to <<L, 0>>.  On that  *)
(* axis the 400-gon returned by Point.buffer(r, 100) has the vertices      *)
(* <<px - r, 0>> and <<px + r, 0>>, so `within` is exactly |dx| < r.       *)
(***************************************************************************)
EXTENDS Integers, Sequences, FiniteSets, TLC

VARIABLES
    op,          \* which static method runs: "add_nodes" or "thin_nodes"
    pc,          \* position in that method
    err,         \* the exception that ended the run, "none" otherwise
    lines,       \* add_nodes: records of input_file (line features)
    interval,    \* add_nodes: parameter interval
    li,          \* add_nodes: number of records of f_input already consumed
    d,           \* add_nodes: local d
    f_output,    \* add_nodes: records written to output_file, in order
    file,        \* thin_nodes: records of input_file as stored on disk
    group_field, \* thin_nodes: parameter group_field
    radius,      \* thin_nodes: parameter radius
    recs,        \* thin_nodes: local recs = list(f_input), mutated in place
    x,           \* thin_nodes: loop variable x of range(len(recs))
    search_ids,  \* thin_nodes: local search_ids of the current turn
    k,           \* thin_nodes: position of the inner for loop in search_ids
    complete,    \* thin_nodes: records written to output_file, in order
    run          \* thin_nodes: 1 = first call, 2 = call on the first call's output

vars == <<op, pc, err, lines, interval, li, d, f_output,
          file, group_field, radius, recs, x, search_ids, k, complete, run>>

addVars  == <<lines, interval, li, d, f_output>>
thinVars == <<file, group_field, radius, recs, x, search_ids, k, complete, run>>

----------------------------------------------------------------------------
(* Bounds of the model *)

MaxLines    == 2   \* line features in add_nodes' input file
MaxLen      == 5   \* largest line length
MaxInterval == 3   \* largest interval
MaxWrites   == 4   \* writes followed when the while loop of add_nodes cannot end
MaxRecs     == 3   \* point records in thin_nodes' input file

Lengths   == 0..MaxLen
Intervals == (-1)..MaxInterval
XS        == {0, 100, 1000, 2000}
Labels    == {"I-5", "US-101"}
Radii     == {-500, 0, 500, 1000, 1500}
Fields    == {"label", "ref"}     \* "label" is in the schema, "ref" is not

None == <<>>

Max(a, b) == IF a >= b THEN a ELSE b
Min(a, b) == IF a <= b THEN a ELSE b
Abs(a)    == IF a >= 0 THEN a ELSE -a

SeqsUpTo(S, n) == UNION {[1..m -> S] : m \in 0..n}

----------------------------------------------------------------------------
(* add_nodes *)

\* A line feature of the input file: its geometry is None or a line of length L.
LineFeature(g) == [geometry |-> g]
LineGeoms      == {None} \cup {<<L>> : L \in Lengths}
LineInputs     == SeqsUpTo({LineFeature(g) : g \in LineGeoms}, MaxLines)

length(geom) == geom[1]

\* shapely's interpolate: a distance along the line, clamped to it; a
\* negative distance is measured back from the end.
interpolate(geom, dist) ==
    IF dist >= 0 THEN <<Min(dist, length(geom)), 0>>
                 ELSE <<Max(length(geom) + dist, 0), 0>>

\* The properties every written node carries (lines 79-81).
NodeProps == [INCLUDE |-> "Y", PROCESSED |-> "N"]

\* Mutant of the loop test: the end of the line is sampled too.
WhileCondInclusive(dist, geom) == dist <= length(geom)

\* The loop test of line 83.
WhileCond(dist, geom) == dist < length(geom)

\* for rec in f_input, geom is None: continue (lines 73-76).
SkipLine ==
    /\ op = "add_nodes" /\ pc = "for"
    /\ li < Len(lines)
    /\ lines[li + 1].geometry = None
    /\ li' = li + 1
    /\ UNCHANGED <<op, pc, err, lines, interval, d, f_output, thinVars>>

\* for rec in f_input, geom is a line: d = 0 and r is prepared (lines 73-81).
StartLine ==
    /\ op = "add_nodes" /\ pc = "for"
    /\ li < Len(lines)
    /\ lines[li + 1].geometry # None
    /\ d' = 0
    /\ pc' = "while"
    /\ UNCHANGED <<op, err, lines, interval, li, f_output, thinVars>>

\* One iteration of the while loop (lines 83-85).  With interval <= 0 the
\* loop of a line of positive length never ends; MaxWrites caps how far that
\* run is followed.
Emit ==
    /\ op = "add_nodes" /\ pc = "while"
    /\ WhileCond(d, lines[li + 1].geometry)
    /\ interval > 0 \/ Len(f_output) < MaxWrites
    /\ f_output' = Append(f_output,
                          [line       |-> li + 1,
                           dist       |-> d,
                           geometry   |-> interpolate(lines[li + 1].geometry, d),
                           properties |-> NodeProps])
    /\ d' = d + interval
    /\ UNCHANGED <<op, pc, err, lines, interval, li, thinVars>>

\* The while loop ends and the for loop takes the next record (line 83).
EndLine ==
    /\ op = "add_nodes" /\ pc = "while"
    /\ ~WhileCond(d, lines[li + 1].geometry)
    /\ li' = li + 1
    /\ pc' = "for"
    /\ UNCHANGED <<op, err, lines, interval, d, f_output, thinVars>>

\* f_output.close() and return (lines 87-88).
Close ==
    /\ op = "add_nodes" /\ pc = "for"
    /\ li = Len(lines)
    /\ pc' = "done"
    /\ UNCHANGED <<op, err, addVars, thinVars>>

----------------------------------------------------------------------------
(* thin_nodes *)

\* A point record as fiona reads it: id is the position in the file (from 0),
\* properties holds the schema's fields.
PointRecord(i, g, lab) ==
    [id         |-> i,
     geometry   |-> g,
     properties |-> [label |-> lab, INCLUDE |-> "Y", PROCESSED |-> "N"]]

PointGeoms == {None} \cup {<<px, 0>> : px \in XS}

\* The files thin_nodes is given: what add_nodes writes (INCLUDE = 'Y',
\* PROCESSED = 'N'), ids in file order.
FileInputs ==
    UNION {{[i \in 1..m |-> PointRecord(i - 1, gs[i], ls[i])] :
               gs \in [1..m -> PointGeoms], ls \in [1..m -> Labels]} :
           m \in 0..MaxRecs}

\* recs[int(search_id)] (line 136).
RecAt(rs, id) == rs[id + 1]

SetFlags(rs, id, inc, proc) ==
    [rs EXCEPT ![id + 1].properties.INCLUDE = inc,
               ![id + 1].properties.PROCESSED = proc]

\* Mutant of the search region: the margin factor 1.1 is written 0.1.
BoundsTight(geom, rad) ==
    IF rad > 0 THEN <<10 * geom[1] - rad, 10 * geom[1] + rad>>
               ELSE <<1, 0>>

\* obj.bounds of geom.buffer(radius * 1.1, 100) on the axis, as tenths: the
\* buffer of a point by a non-positive distance is empty and has no bounds.
Bounds(geom, rad) ==
    IF rad > 0 THEN <<10 * geom[1] - 11 * rad, 10 * geom[1] + 11 * rad>>
               ELSE <<1, 0>>

\* records_within: the ids of the records of input_file that the bounding
\* box filter lets through, in file order.  A record without geometry is
\* never returned by a spatial filter.
RECURSIVE records_within(_, _)
records_within(input_file, bounds) ==
    IF input_file = <<>> THEN <<>>
    ELSE LET n    == Len(input_file)
             rec  == input_file[n]
             rest == records_within(SubSeq(input_file, 1, n - 1), bounds)
         IN  IF /\ rec.geometry # None
                /\ bounds[1] <= 10 * rec.geometry[1]
                /\ 10 * rec.geometry[1] <= bounds[2]
             THEN Append(rest, rec.id)
             ELSE rest

\* Mutant of the containment test: a point on the buffer's boundary counts.
WithinInclusive(pt, geom, rad) ==
    /\ rad > 0
    /\ Abs(pt[1] - geom[1]) <= rad

\* Mutant of the containment test: the distance loses its absolute value.
WithinOneSided(pt, geom, rad) ==
    /\ rad > 0
    /\ pt[1] - geom[1] < rad

\* shape(search_rec['geometry']).within(geom.buffer(radius, 100)) (lines
\* 134, 138): strictly inside the buffer; nothing is within an empty buffer.
Within(pt, geom, rad) ==
    /\ rad > 0
    /\ Abs(pt[1] - geom[1]) < rad

\* Mutant of the skip rule: the two flags are tested for a pair no record has.
SkipCondTypo(active_rec) ==
    /\ active_rec.properties.INCLUDE = "N"
    /\ active_rec.properties.PROCESSED = "N"

\* The skip rule of line 124.
SkipCond(active_rec) ==
    \/ active_rec.properties.INCLUDE = "N"
    \/ active_rec.properties.PROCESSED = "Y"

\* Mutant of the id test: the active record is not told apart from the candidate.
IdCondNoSelfTest(active_rec, search_rec, search_id) ==
    search_rec.id = search_id

\* int(active_rec['id']) != int(search_rec['id']) and search_rec['id'] ==
\* search_id: the conjuncts of line 139 evaluated before the group lookup.
IdCond(active_rec, search_rec, search_id) ==
    /\ active_rec.id # search_rec.id
    /\ search_rec.id = search_id

\* rec['properties'][group_field] raises KeyError when the field is absent.
HasField(rec, field) == field \in DOMAIN rec.properties

\* Mutant of the group test: the group values are not compared.
GroupCondAny(active_rec, search_rec, field) ==
    active_rec.properties[field] = active_rec.properties[field]

\* active_rec['properties'][group_field] == search_rec['properties'][group_field]
GroupCond(active_rec, search_rec, field) ==
    active_rec.properties[field] = search_rec.properties[field]

\* The last two conjuncts of line 139.
FlagCond(active_rec, search_rec) ==
    /\ search_rec.properties.INCLUDE = "Y"
    /\ active_rec.properties.PROCESSED = "N"

\* Whether evaluating line 139 for this candidate raises KeyError.
Raises(rs, active, search_id, field, rad) ==
    /\ Within(RecAt(rs, search_id).geometry, RecAt(rs, active).geometry, rad)
    /\ IdCond(RecAt(rs, active), RecAt(rs, search_id), search_id)
    /\ \/ ~HasField(RecAt(rs, active), field)
       \/ ~HasField(RecAt(rs, search_id), field)

\* Whether lines 138-139 select this candidate for exclusion.
Excludes(rs, active, search_id, field, rad) ==
    /\ Within(RecAt(rs, search_id).geometry, RecAt(rs, active).geometry, rad)
    /\ IdCond(RecAt(rs, active), RecAt(rs, search_id), search_id)
    /\ HasField(RecAt(rs, active), field)
    /\ HasField(RecAt(rs, search_id), field)
    /\ GroupCond(RecAt(rs, active), RecAt(rs, search_id), field)
    /\ FlagCond(RecAt(rs, active), RecAt(rs, search_id))

\* Mutant of the inner loop: the candidate is marked processed but stays included.
CompareStepMarkOnly(rs, active, search_id, field, rad) ==
    IF Excludes(rs, active, search_id, field, rad)
    THEN SetFlags(rs, search_id, "Y", "Y")
    ELSE rs

\* One iteration of the inner for loop (lines 135-141) on the list rs.
CompareStep(rs, active, search_id, field, rad) ==
    IF Excludes(rs, active, search_id, field, rad)
    THEN SetFlags(rs, search_id, "N", "Y")
    ELSE rs

\* Mutant of the output step: every record is written.
KeptAll(rs) == rs

\* The records the output step writes (lines 152-154).
Kept(rs) == SelectSeq(rs, LAMBDA r : r.properties.INCLUDE = "Y")

\* Reading a written file back: fiona numbers the records in file order.
Renumber(rs) == [i \in 1..Len(rs) |-> [rs[i] EXCEPT !.id = i - 1]]

\* Line 124: the active record is skipped.
Skip ==
    /\ op = "thin_nodes" /\ pc = "for"
    /\ x < Len(recs)
    /\ SkipCond(RecAt(recs, x))
    /\ x' = x + 1
    /\ UNCHANGED <<op, pc, err, addVars,
                   file, group_field, radius, recs, search_ids, k, complete, run>>

\* Lines 127-131: the active record has no geometry.
NullGeom ==
    /\ op = "thin_nodes" /\ pc = "for"
    /\ x < Len(recs)
    /\ ~SkipCond(RecAt(recs, x))
    /\ RecAt(recs, x).geometry = None
    /\ recs' = SetFlags(recs, x, "N", "Y")
    /\ x' = x + 1
    /\ UNCHANGED <<op, pc, err, addVars,
                   file, group_field, radius, search_ids, k, complete, run>>

\* Lines 133-134: the spatial query of the active record's turn.
Query ==
    /\ op = "thin_nodes" /\ pc = "for"
    /\ x < Len(recs)
    /\ ~SkipCond(RecAt(recs, x))
    /\ RecAt(recs, x).geometry # None
    /\ search_ids' = records_within(file, Bounds(RecAt(recs, x).geometry, radius))
    /\ k' = 1
    /\ pc' = "scan"
    /\ UNCHANGED <<op, err, addVars,
                   file, group_field, radius, recs, x, complete, run>>

\* Lines 135-141: one candidate of the inner loop.
Compare ==
    /\ op = "thin_nodes" /\ pc = "scan"
    /\ k <= Len(search_ids)
    /\ ~Raises(recs, x, search_ids[k], group_field, radius)
    /\ recs' = CompareStep(recs, x, search_ids[k], group_field, radius)
    /\ k' = k + 1
    /\ UNCHANGED <<op, pc, err, addVars,
                   file, group_field, radius, x, search_ids, complete, run>>

\* Line 139 raises KeyError: the call ends before the output file is opened.
KeyError ==
    /\ op = "thin_nodes" /\ pc = "scan"
    /\ k <= Len(search_ids)
    /\ Raises(recs, x, search_ids[k], group_field, radius)
    /\ pc' = "error"
    /\ err' = "KeyError"
    /\ UNCHANGED <<op, addVars, thinVars>>

\* Lines 143-144: the active record is reaffirmed and the loop moves on.
Reaffirm ==
    /\ op = "thin_nodes" /\ pc = "scan"
    /\ k > Len(search_ids)
    /\ recs' = SetFlags(recs, x, "Y", "N")
    /\ x' = x + 1
    /\ pc' = "for"
    /\ UNCHANGED <<op, err, addVars,
                   file, group_field, radius, search_ids, k, complete, run>>

\* Lines 146-156: the output file is written and the call returns.
WriteOutput ==
    /\ op = "thin_nodes" /\ pc = "for"
    /\ x = Len(recs)
    /\ complete' = Kept(recs)
    /\ pc' = "done"
    /\ UNCHANGED <<op, err, addVars,
                   file, group_field, radius, recs, x, search_ids, k, run>>

\* thin_nodes is called again on the file the first call wrote, with the
\* same group_field and radius (lines 105-113 of the second call).
Rerun ==
    /\ op = "thin_nodes" /\ pc = "done"
    /\ run = 1
    /\ run' = 2
    /\ file' = Renumber(complete)
    /\ recs' = Renumber(complete)
    /\ x' = 0
    /\ search_ids' = <<>>
    /\ k' = 1
    /\ complete' = <<>>
    /\ pc' = "for"
    /\ UNCHANGED <<op, err, addVars, group_field, radius>>

----------------------------------------------------------------------------
(* Specification *)

InitAdd ==
    /\ op = "add_nodes"
    /\ lines \in LineInputs
    /\ interval \in Intervals
    /\ file = <<>> /\ recs = <<>>
    /\ group_field = "label" /\ radius = 500

InitThin ==
    /\ op = "thin_nodes"
    /\ file \in FileInputs
    /\ recs = file
    /\ group_field \in Fields
    /\ radius \in Radii
    /\ lines = <<>> /\ interval = 1

Init ==
    /\ InitAdd \/ InitThin
    /\ pc = "for" /\ err = "none"
    /\ li = 0 /\ d = 0 /\ f_output = <<>>
    /\ x = 0 /\ search_ids = <<>> /\ k = 1 /\ complete = <<>> /\ run = 1

Next ==
    \/ SkipLine \/ StartLine \/ Emit \/ EndLine \/ Close
    \/ Skip \/ NullGeom \/ Query \/ Compare \/ KeyError \/ Reaffirm
    \/ WriteOutput \/ Rerun

Spec == Init /\ [][Next]_vars

----------------------------------------------------------------------------
(* The whole pass of thin_nodes as a function of its input, built from the *)
(* same per-candidate operators as the actions.                            *)

\* The inner loop of one turn (lines 135-144) over the candidates ids:
\* the list after the turn, whether line 139 raised, and whether some
\* exclusion of the turn hit a record in front of the active one.
RECURSIVE TurnResult(_, _, _, _, _)
TurnResult(rs, active, ids, field, rad) ==
    IF ids = <<>>
    THEN [recs |-> SetFlags(rs, active, "Y", "N"), raised |-> FALSE, retro |-> FALSE]
    ELSE IF Raises(rs, active, Head(ids), field, rad)
    THEN [recs |-> rs, raised |-> TRUE, retro |-> FALSE]
    ELSE LET rest == TurnResult(CompareStep(rs, active, Head(ids), field, rad),
                                active, Tail(ids), field, rad)
         IN  [rest EXCEPT !.retro = \/ rest.retro
                                    \/ /\ Excludes(rs, active, Head(ids), field, rad)
                                       /\ Head(ids) < active]

\* The outer loop from index i on (lines 116-144).
RECURSIVE PassResult(_, _, _, _, _)
PassResult(rs, i, input_file, field, rad) ==
    IF i >= Len(rs) THEN [recs |-> rs, raised |-> FALSE, retro |-> FALSE]
    ELSE IF SkipCond(RecAt(rs, i))
    THEN PassResult(rs, i + 1, input_file, field, rad)
    ELSE IF RecAt(rs, i).geometry = None
    THEN PassResult(SetFlags(rs, i, "N", "Y"), i + 1, input_file, field, rad)
    ELSE LET t == TurnResult(rs, i,
                             records_within(input_file,
                                            Bounds(RecAt(rs, i).geometry, rad)),
                             field, rad)
         IN  IF t.raised THEN t
             ELSE LET rest == PassResult(t.recs, i + 1, input_file, field, rad)
                  IN  [rest EXCEPT !.retro = rest.retro \/ t.retro]

----------------------------------------------------------------------------
(* Vocabulary of the properties *)

Thinning == op = "thin_nodes"
Adding   == op = "add_nodes"

Include(rec)   == rec.properties.INCLUDE
Processed(rec) == rec.properties.PROCESSED

\* Record number j of recs goes from INCLUDE = 'Y' to 'N' in this step.
Dropped(j) ==
    /\ j \in DOMAIN recs /\ j \in DOMAIN recs'
    /\ run' = run
    /\ Include(recs[j]) = "Y"
    /\ Include(recs'[j]) = "N"

\* The distances written for line number i, in output order.
RECURSIVE DistsOf(_, _)
DistsOf(out, i) ==
    IF out = <<>> THEN <<>>
    ELSE LET n    == Len(out)
             rest == DistsOf(SubSeq(out, 1, n - 1), i)
         IN  IF out[n].line = i THEN Append(rest, out[n].dist) ELSE rest

\* Line number i has been sampled completely.
LineDone(i) == i \in 1..li

CeilDiv(a, b) == (a + b - 1) \div b

\* The distances 0, I, 2I, ... (n of them).
Multiples(n, I) == [m \in 1..n |-> (m - 1) * I]

IsoScenario ==
    /\ Thinning /\ run = 1
    /\ group_field = "label" /\ radius = 500
    /\ file = <<PointRecord(0, <<0, 0>>, "I-5"), PointRecord(1, <<100, 0>>, "US-101")>>

DedupScenario ==
    /\ Thinning /\ run = 1
    /\ group_field = "label" /\ radius = 1500
    /\ file = <<PointRecord(0, <<0, 0>>, "I-5"),
                PointRecord(1, <<1000, 0>>, "I-5"),
                PointRecord(2, <<2000, 0>>, "I-5")>>

----------------------------------------------------------------------------
(* Properties *)

\* C1 Group isolation: whenever a step of thin_nodes sets a record to
\* INCLUDE = 'N' during the turn of another record, both carry the group
\* field with the same value; and the records A = (0,0) 'I-5', B = (100,0)
\* 'US-101' thinned with radius 500 are both written to the output.
C1_GroupIsolation ==
    /\ [][\A j \in DOMAIN recs :
            (Dropped(j) /\ recs[j].id # x) =>
                /\ HasField(recs[j], group_field)
                /\ HasField(RecAt(recs, x), group_field)
                /\ GroupCond(RecAt(recs, x), recs[j], group_field)]_vars
    /\ []((IsoScenario /\ pc = "done") => complete = file)

C1_Witness ==
    /\ IsoScenario /\ pc = "done"
    /\ Len(complete) = 2

\* C2 Idempotence: in a second call of thin_nodes on the file the first call
\* wrote (same group field, same radius > 0, ids renumbered) no record is
\* ever excluded, and the second output equals its input.
C2_Idempotent ==
    (Thinning /\ run = 2 /\ radius > 0) =>
        /\ \A j \in DOMAIN recs : Include(recs[j]) = "Y"
        /\ pc = "done" => complete = file

C2_Witness ==
    /\ Thinning /\ run = 2 /\ radius > 0 /\ pc = "done"
    /\ group_field = "label"
    /\ \E i, j \in DOMAIN complete :
          /\ i # j
          /\ GroupCond(complete[i], complete[j], group_field)

\* C3 (as amended) Sampling count: a line of length L > 0 sampled with
\* interval I > 0 gets exactly ceil(L / I) points, at the distances
\* 0, I, 2I, ... in increasing order; that is floor(L / I) + 1 points when L
\* is no multiple of I and L / I points when it is.
C3_SamplingCount ==
    \A i \in DOMAIN lines :
        (/\ Adding /\ LineDone(i) /\ interval > 0
         /\ lines[i].geometry # None
         /\ length(lines[i].geometry) > 0)
        => DistsOf(f_output, i)
             = Multiples(CeilDiv(length(lines[i].geometry), interval), interval)

\* C3 (as claimed): exactly floor(L / I) + 1 points, also when L is an exact
\* multiple of I.
C3_Original ==
    \A i \in DOMAIN lines :
        (/\ Adding /\ LineDone(i) /\ interval > 0
         /\ lines[i].geometry # None
         /\ length(lines[i].geometry) > 0)
        => DistsOf(f_output, i)
             = Multiples((length(lines[i].geometry) \div interval) + 1, interval)

C3_Witness ==
    /\ Adding /\ pc = "done" /\ interval > 1
    /\ \E i \in DOMAIN lines :
          /\ lines[i].geometry # None
          /\ length(lines[i].geometry) > interval
          /\ length(lines[i].geometry) % interval = 0
          /\ Len(DistsOf(f_output, i)) = length(lines[i].geometry) \div interval

\* C4 Degenerate line: a line of length 0 sampled with an interval > 0 gets
\* exactly one point, at distance 0.
C4_DegenerateLine ==
    \A i \in DOMAIN lines :
        (/\ Adding /\ LineDone(i) /\ interval > 0
         /\ lines[i].geometry # None
         /\ length(lines[i].geometry) = 0)
        => DistsOf(f_output, i) = <<0>>

\* C5 Invalid parameters fail fast: with interval <= 0 (add_nodes) or
\* radius <= 0 (thin_nodes) no record is ever emitted or written.
C5_FailFast ==
    ((Adding /\ interval <= 0) \/ (Thinning /\ radius <= 0))
        => (f_output = <<>> /\ complete = <<>>)

\* C6 Missing group attribute is not fatal: when the records lack the group
\* field, thin_nodes is never ended by an exception.
C6_MissingNotFatal ==
    (Thinning /\ \E j \in DOMAIN recs : ~HasField(recs[j], group_field))
        => (pc # "error" /\ err = "none")

\* C7 (as amended) Basic dedup scenario: of three records of one group at
\* x = 0, 1000, 2000, thinned with radius 1500, exactly two are written: the
\* records at x = 0 and x = 2000; only the record at x = 1000 is excluded.
C7_DedupTwoSurvive ==
    (DedupScenario /\ pc = "done") =>
        /\ complete = <<file[1], file[3]>>
        /\ Include(recs[2]) = "N"

\* C7 (as claimed): at most one of the three records is kept.
C7_Original ==
    (DedupScenario /\ pc = "done") => Len(complete) <= 1

C7_Witness ==
    /\ DedupScenario /\ pc = "done"
    /\ Len(complete) = 2

\* C8 (as amended) No retroactive exclusion: whenever a step of thin_nodes
\* sets a record to INCLUDE = 'N', that record's index is not smaller than
\* the active record's index: a record that has taken its own turn and was
\* reaffirmed is never excluded afterwards (first index wins).
C8_NoRetroactive ==
    [][\A j \in DOMAIN recs : Dropped(j) => recs[j].id >= x]_vars

\* C8 (as claimed): where thin_nodes can be called at all, there is an input
\* and a radius > 0 for which the pass excludes a record at an index in front
\* of the active record's.
C8_Original ==
    (Thinning /\ run = 1 /\ pc = "for" /\ x = 0) =>
        \E input \in FileInputs, field \in Fields, rad \in {r \in Radii : r > 0} :
            PassResult(input, 0, input, field, rad).retro

\* A later probe meets an earlier, reaffirmed record of its own group among
\* its candidates.
C8_Witness ==
    /\ Thinning /\ pc = "scan" /\ k <= Len(search_ids)
    /\ group_field = "label"
    /\ search_ids[k] < x
    /\ Include(RecAt(recs, search_ids[k])) = "Y"
    /\ GroupCond(RecAt(recs, x), RecAt(recs, search_ids[k]), group_field)

\* C9 Per-record state machine: every record is always in (INCLUDE,
\* PROCESSED) = ('Y','N') or ('N','Y'); the active record of a scan is never
\* an excluded one; the output holds exactly the records with INCLUDE = 'Y';
\* and an excluded record stays excluded, its own turn changing nothing.
C9_StateMachine ==
    /\ [](Thinning =>
            /\ \A j \in DOMAIN recs :
                  <<Include(recs[j]), Processed(recs[j])>> \in {<<"Y", "N">>, <<"N", "Y">>}
            /\ pc = "scan" => Include(RecAt(recs, x)) = "Y"
            /\ pc = "done" =>
                  /\ \A j \in DOMAIN complete : Include(complete[j]) = "Y"
                  /\ \A j \in DOMAIN recs :
                        Include(recs[j]) = "N"
                            => \A i \in DOMAIN complete : complete[i].id # recs[j].id)
    /\ [][(Thinning /\ run' = run) =>
            \A j \in DOMAIN recs :
                Include(recs[j]) = "N" =>
                    /\ recs'[j] = recs[j]
                    /\ (pc = "for" /\ x = recs[j].id) =>
                          (recs' = recs /\ pc' \in {"for", "done"})]_vars

C9_Witness ==
    /\ Thinning /\ pc = "done" /\ run = 1
    /\ \E j \in DOMAIN recs : Include(recs[j]) = "N" /\ recs[j].geometry # None
    /\ Len(complete) < Len(recs)

InRadius(a, b) ==
    /\ a.geometry # None /\ b.geometry # None
    /\ Abs(a.geometry[1] - b.geometry[1]) < radius

\* Two records carry the group field with the same value.
SameGroup(a, b) ==
    /\ HasField(a, group_field) /\ HasField(b, group_field)
    /\ a.properties[group_field] = b.properties[group_field]

\* C11 Kept set has no duplicates: with the group field present, once
\* thin_nodes has completed no two distinct written records share the group
\* value and lie within the radius of one another, and the same holds of the
\* records left with INCLUDE = 'Y' in memory.
C11_NoDuplicatesKept ==
    (Thinning /\ pc = "done" /\ group_field = "label") =>
        /\ \A i, j \in DOMAIN complete :
              i # j => ~(SameGroup(complete[i], complete[j])
                         /\ InRadius(complete[i], complete[j]))
        /\ \A i, j \in DOMAIN recs :
              (i # j /\ Include(recs[i]) = "Y" /\ Include(recs[j]) = "Y")
                  => ~(SameGroup(recs[i], recs[j]) /\ InRadius(recs[i], recs[j]))

\* A completed first call that dropped a duplicate and kept two records of
\* one group.
C11_Witness ==
    /\ Thinning /\ pc = "done" /\ run = 1
    /\ group_field = "label" /\ radius > 0
    /\ \E i, j \in DOMAIN complete : i # j /\ SameGroup(complete[i], complete[j])
    /\ \E i, j \in DOMAIN recs :
          /\ Include(recs[i]) = "Y" /\ Include(recs[j]) = "N"
          /\ SameGroup(recs[i], recs[j]) /\ InRadius(recs[i], recs[j])

\* Record number i of recs has taken its probe turn or is taking it.
Probed(i) ==
    \/ recs[i].id < x
    \/ pc = "scan" /\ recs[i].id = x

\* Record number j of recs lies within the radius of an included record of
\* its own group.
Represented(j) ==
    \E i \in DOMAIN recs :
        /\ i # j
        /\ Include(recs[i]) = "Y"
        /\ SameGroup(recs[i], recs[j])
        /\ InRadius(recs[i], recs[j])

====
